---- MODULE Spec2Model ----
(***************************************************************************)
(* Model of the per-epoch solving pipeline of gnss-rtk:                    *)
(*   - Candidate (src/src/candidate.rs): the local predicates on the       *)
(*     observation lists and the transmission-time solver;                 *)
(*   - Solver::run (src/src/solver.rs): candidate pool filtering, the      *)
(*     minimum count, modelization, the navigation system and its          *)
(*     resolution.                                                         *)
(*                                                                         *)
(* Units.  Epochs and Durations are integer ticks (one tick = 10 ms).      *)
(* An f64 number of seconds is an integer count of quarter ticks, so that  *)
(* Duration <-> seconds conversions are computed (scaling one way,         *)
(* rounding to the nearest tick the other way).  Distances are in units    *)
(* of which light covers SPEED_OF_LIGHT per quarter tick.  Carrier         *)
(* frequencies are in kHz.  SNRs and elevations are integers.              *)
(***************************************************************************)
EXTENDS Integers, Sequences, FiniteSets, TLC

(***************************************************************************)
(* Option<T>: None is the empty tuple, Some(x) the one-element tuple.      *)
(***************************************************************************)
None == <<>>
Some(x) == <<x>>

(***************************************************************************)
(* Bounds of the model.                                                    *)
(***************************************************************************)
MaxCode == 3
MaxOther == 1
MaxPool == 5
MaxBad == 2
\* the longest code and phase lists of the candidates the band counts are
\* tried on
MaxBand == 2

(***************************************************************************)
(* Program constants.                                                      *)
(***************************************************************************)
SPEED_OF_LIGHT == 3
f_l1 == 1575420
f_l2 == 1227600
f_l5 == 1176450
\* 0.1 s, the largest accepted propagation delay, in quarter ticks
MaxPropagation == 40

VARIABLES
    cand,   \* the Candidate the operations of candidate.rs are applied to
    op,     \* the last operation applied to cand: [name, arg]
    ret,    \* what that operation returned
    before, \* history: the candidate as it was when that operation was called
    twice,  \* history: that operation was min_snr_mask(m), called right after
            \* another min_snr_mask(m) with the same m
    solver, \* the Solver: [cfg, mode, apriori, models]
    kinds,  \* the pool handed to run and its surroundings: kinds[i] says what
            \* the i-th candidate carries and what the interpolator and the
            \* eclipse service answer for its SV
    pc,     \* where Solver::run stands
    pool,   \* the local pool of run
    idx,    \* the loop variable of the filter loops
    last,   \* the end of the range of the running filter loop
    rows,   \* the rows of g and y: rows[i] is [sv, y, g], the SV row i was
            \* built from, y[i] and the row i of g
    result, \* what run returned, or how it aborted
    entry   \* history: the solver as it was when run was called

candVars == <<cand, op, ret, before, twice>>

solverVars == <<solver, kinds, pc, pool, idx, last, rows, result, entry>>

vars == <<cand, op, ret, before, twice,
          solver, kinds, pc, pool, idx, last, rows, result, entry>>

(***************************************************************************)
(* Candidate::best_snr                                                     *)
(***************************************************************************)
\* the closure handed to max_by
SnrCmp(a, b) ==
    IF a.snr # None
    THEN IF b.snr # None
         THEN IF a.snr[1] < b.snr[1] THEN "Less"
              ELSE IF a.snr[1] = b.snr[1] THEN "Equal" ELSE "Greater"
         ELSE "Greater"
    ELSE "Less"

\* Iterator::max_by: a fold that keeps the accumulator only when it compares
\* Greater than the next element (the last of several maxima is returned)
RECURSIVE MaxByFold(_, _, _)
MaxByFold(list, i, x) ==
    IF i > Len(list) THEN x
    ELSE IF SnrCmp(x, list[i]) = "Greater"
         THEN MaxByFold(list, i + 1, x)
         ELSE MaxByFold(list, i + 1, list[i])

max_by(list) == IF list = <<>> THEN None ELSE Some(MaxByFold(list, 2, list[1]))

\* Faulty variant of best_snr: the phase and doppler observations are left out
best_snr_code_only(self) ==
    LET m == max_by(self.code)
    IN  IF m = None THEN None ELSE m[1].snr

\* code.iter().chain(phase.iter()).chain(doppler.iter()).max_by(..).map(|c| c.snr)?
best_snr(self) ==
    LET m == max_by(self.code \o self.phase \o self.doppler)
    IN  IF m = None THEN None ELSE m[1].snr

(***************************************************************************)
(* Candidate::prefered_pseudorange                                         *)
(***************************************************************************)
\* Faulty variant of PreferedLoop: the first code observation, whatever the SNRs
PreferedFirst(list, i, snr, code) ==
    IF list = <<>> THEN None ELSE Some(list[1])

\* the loop over self.code; snr and code are the two locals
RECURSIVE PreferedLoop(_, _, _, _)
PreferedLoop(list, i, snr, code) ==
    IF i > Len(list) THEN code
    ELSE LET c == list[i] IN
         IF code = None
         THEN PreferedLoop(list, i + 1, c.snr, Some(c))
         ELSE IF c.snr # None
              THEN IF snr # None
                   THEN IF c.snr[1] > snr[1]
                        THEN PreferedLoop(list, i + 1, c.snr, Some(c))
                        ELSE PreferedLoop(list, i + 1, snr, code)
                   ELSE PreferedLoop(list, i + 1, c.snr, Some(c))
              ELSE PreferedLoop(list, i + 1, snr, code)

prefered_pseudorange(self) == PreferedLoop(self.code, 1, None, None)

(***************************************************************************)
(* Candidate::min_snr_mask                                                 *)
(***************************************************************************)
\* Faulty variant of SnrKept: an observation without SNR is kept
SnrKeptOrAbsent(c, min_snr) == IF c.snr # None THEN c.snr[1] >= min_snr ELSE TRUE

\* the closure handed to retain
SnrKept(c, min_snr) == IF c.snr # None THEN c.snr[1] >= min_snr ELSE FALSE

\* Faulty variant of retain: an in-place removal that steps over the element
\* following a removed one
RECURSIVE RetainSkipping(_, _)
RetainSkipping(list, min_snr) ==
    IF list = <<>> THEN <<>>
    ELSE IF SnrKept(Head(list), min_snr)
         THEN <<Head(list)>> \o RetainSkipping(Tail(list), min_snr)
         ELSE IF Len(list) = 1 THEN <<>>
              ELSE <<list[2]>> \o RetainSkipping(Tail(Tail(list)), min_snr)

\* Vec::retain: keeps, in order, the elements the closure accepts
RECURSIVE retain(_, _)
retain(list, min_snr) ==
    IF list = <<>> THEN <<>>
    ELSE (IF SnrKept(Head(list), min_snr) THEN <<Head(list)>> ELSE <<>>)
         \o retain(Tail(list), min_snr)

min_snr_mask(self, min_snr) ==
    [self EXCEPT !.code = retain(@, min_snr),
                 !.doppler = retain(@, min_snr),
                 !.phase = retain(@, min_snr)]

(***************************************************************************)
(* Candidate::pseudorange_combination                                      *)
(***************************************************************************)
\* `as u16` on an f64: truncates toward zero and saturates
AsU16(x) == IF x < 0 THEN 0 ELSE IF x > 65535 THEN 65535 ELSE x

\* (code.frequency / 1.0E6) as u16, the frequency being in kHz here
MHzSlot(frequency) == AsU16(frequency \div 1000)

\* the loop that fills the three slots; a later observation of a slot
\* replaces an earlier one
RECURSIVE SlotLoop(_, _, _)
SlotLoop(list, i, codes) ==
    IF i > Len(list) THEN codes
    ELSE LET code == list[i]
             freq == MHzSlot(code.frequency)
         IN  SlotLoop(list, i + 1,
                 IF freq = 1575 THEN [codes EXCEPT ![1] = Some(code)]
                 ELSE IF freq = 1227 THEN [codes EXCEPT ![2] = Some(code)]
                 ELSE IF freq = 1176 THEN [codes EXCEPT ![3] = Some(code)]
                 ELSE codes)

\* f.powi(2).  The combination is homogeneous of degree zero in the
\* frequency unit: the squares are taken in units of 10.23 MHz, of which the
\* three nominal carriers are the multiples 154, 120 and 115.
Powi2(f) == (f \div 10230) * (f \div 10230)

\* the returned Observation; the value alpha * (beta * c1 - gamma * cx)
\* with alpha = 1 / (f_l1^2 - f_lx^2) is kept as the exact fraction num / den
Combined(c_l1, c_lx, f_lx) ==
    LET beta == Powi2(f_l1)
        gamma == Powi2(f_lx)
    IN  [snr |-> None,
         frequency |-> c_l1.frequency,
         num |-> beta * c_l1.value - gamma * c_lx.value,
         den |-> beta - gamma]

\* Faulty variant of Companion: L5 is looked at before L2
CompanionL5First(codes) ==
    IF codes[3] # None THEN Some(<<codes[3][1], f_l5>>)
    ELSE IF codes[2] # None THEN Some(<<codes[2][1], f_l2>>)
    ELSE None

\* match codes.1 { Some(pr) => (pr, L2), None => match codes.2 {
\*     Some(pr) => (pr, L5), None => return None } }
Companion(codes) ==
    IF codes[2] # None THEN Some(<<codes[2][1], f_l2>>)
    ELSE IF codes[3] # None THEN Some(<<codes[3][1], f_l5>>)
    ELSE None

pseudorange_combination(self) ==
    LET codes == SlotLoop(self.code, 1, <<None, None, None>>)
    IN  IF codes[1] = None THEN None
        ELSE LET lx == Companion(codes)
             IN  IF lx = None THEN None
                 ELSE Some(Combined(codes[1][1], lx[1][1], lx[1][2]))

(***************************************************************************)
(* Candidate::dual_pseudorange, dual_phase, ppp_compatible                 *)
(***************************************************************************)
\* (c.frequency / 1000.0) as u16, the frequency being in kHz here
KHzBand(frequency) == AsU16(frequency)

\* .map(..).unique().count(): the number of distinct bands of a list
UniqueCount(list) ==
    Cardinality({KHzBand(list[i].frequency) : i \in 1..Len(list)})

dual_pseudorange(self) == UniqueCount(self.code) > 1

dual_phase(self) == UniqueCount(self.phase) > 1

ppp_compatible(self) == dual_pseudorange(self)

(***************************************************************************)
(* Candidate::transmission_time                                            *)
(***************************************************************************)
\* Duration::to_seconds: ticks to seconds (quarter ticks)
to_seconds(d) == d * 4

\* Duration::from_seconds / Epoch::from_duration(s * Unit::Second): seconds
\* to the nearest tick, halves away from zero
from_seconds(s) ==
    IF s >= 0 THEN (2 * s + 4) \div 8 ELSE 0 - ((2 * (0 - s) + 4) \div 8)

\* Faulty variant of AssertsHold: the upper assertion is missing
AssertsLowerOnly(dt_secs) == dt_secs > 0

\* assert!(dt_secs > 0.0) and assert!(dt_secs <= 0.1)
AssertsHold(dt_secs) == dt_secs > 0 /\ dt_secs <= MaxPropagation

\* Faulty variant of transmission_time: the group delay is taken whenever
\* the candidate has one
transmission_time_any_tgd(self, cfg) ==
    LET t == self.t
        seconds_ts == to_seconds(t)
        pr == prefered_pseudorange(self)
    IN  IF pr = None
        THEN [kind |-> "Err", error |-> "MissingPseudoRange", e_tx |-> 0, dt |-> 0]
        ELSE LET dt_tx == seconds_ts - (pr[1].value \div SPEED_OF_LIGHT)
                 e0 == from_seconds(dt_tx)
                 e1 == IF cfg.sv_clock_bias THEN e0 - self.clock_corr ELSE e0
                 e_tx == IF self.tgd # None THEN e1 - self.tgd[1] ELSE e1
                 dt_secs == to_seconds(t - e_tx)
                 dt == from_seconds(dt_secs)
             IN  IF AssertsHold(dt_secs)
                 THEN [kind |-> "Ok", error |-> "", e_tx |-> e_tx, dt |-> dt]
                 ELSE [kind |-> "Panic", error |-> "", e_tx |-> e_tx, dt |-> dt]

transmission_time(self, cfg) ==
    LET t == self.t
        seconds_ts == to_seconds(t)
        pr == prefered_pseudorange(self)
    IN  IF pr = None
        THEN [kind |-> "Err", error |-> "MissingPseudoRange", e_tx |-> 0, dt |-> 0]
        ELSE LET dt_tx == seconds_ts - (pr[1].value \div SPEED_OF_LIGHT)
                 e0 == from_seconds(dt_tx)
                 e1 == IF cfg.sv_clock_bias THEN e0 - self.clock_corr ELSE e0
                 e_tx == IF cfg.sv_total_group_delay /\ self.tgd # None
                         THEN e1 - self.tgd[1] ELSE e1
                 dt_secs == to_seconds(t - e_tx)
                 dt == from_seconds(dt_secs)
             IN  IF AssertsHold(dt_secs)
                 THEN [kind |-> "Ok", error |-> "", e_tx |-> e_tx, dt |-> dt]
                 ELSE [kind |-> "Panic", error |-> "", e_tx |-> e_tx, dt |-> dt]


(***************************************************************************)
(* Candidate::resolve.  Positions are on the x axis, so that the distance  *)
(* rho is a difference; y and the biases are in distance units, delays in  *)
(* seconds.                                                                *)
(***************************************************************************)
\* PVTBias::measured, PVTBias::modeled, PVTBias::default
PVTBias_measured(measurement) == [measured |-> Some(measurement), modeled |-> None]

PVTBias_modeled(model) == [measured |-> None, modeled |-> Some(model)]

PVTBias_default == [measured |-> None, modeled |-> None]

\* PVTBias::value
PVTBias_value(self) ==
    IF self.measured = None THEN self.modeled ELSE self.measured

\* f64::abs
Abs(x) == IF x < 0 THEN 0 - x ELSE x

\* the pseudo-range of the chosen observation; an ionosphere-free
\* combination is rounded down to a whole distance unit
ValueOf(method, code) ==
    IF method = "SPP" THEN code.value ELSE code.num \div code.den

\* lines 369-397: the atmospheric biases [tropo, iono], each none or a
\* PVTBias; niel is what TroposphericBias::model(TropoModel::Niel, ..) gives
Biases(cfg, iono_bias, tropo_bias, niel) ==
    [tropo |-> IF cfg.modeling.tropo_delay
               THEN IF tropo_bias.needs_modeling
                    THEN Some(PVTBias_modeled(niel))
                    ELSE IF tropo_bias.bias # None
                         THEN Some(PVTBias_measured(tropo_bias.bias[1]))
                         ELSE None
               ELSE None,
     iono |-> IF cfg.method = "SPP" /\ cfg.modeling.iono_delay
                 /\ iono_bias.bias # None
              THEN Some(PVTBias_modeled(iono_bias.bias[1]))
              ELSE None]

\* what an applied bias adds to models, 0 when none was applied
Applied(bias) == IF bias = None THEN 0 ELSE PVTBias_value(bias[1])[1]

\* lines 402-406: the loop over cfg.int_delay
RECURSIVE IntDelayLoop(_, _, _, _)
IntDelayLoop(int_delay, i, frequency, acc) ==
    IF i > Len(int_delay) THEN acc
    ELSE IntDelayLoop(int_delay, i + 1, frequency,
                      IF int_delay[i].frequency = frequency
                      THEN acc + int_delay[i].delay * SPEED_OF_LIGHT
                      ELSE acc)

\* lines 332-335 and 407: models and the last write of y[row_index]; y_row
\* is what the delay compensations left in y[row_index]
FinalY(cfg, clock_corr, pr, rho, biases, y_row) ==
    LET models == (IF cfg.modeling.sv_clock_bias
                   THEN 0 - clock_corr * SPEED_OF_LIGHT ELSE 0) + biases
    IN  pr - rho - models

resolve(self, t, cfg, apriori, iono_bias, tropo_bias, niel, row_index, y, g) ==
    IF self.state = None
    THEN [kind |-> "Err", error |-> "UnresolvedState", y |-> y, g |-> g]
    ELSE
    LET state == self.state[1]
        clock_corr == to_seconds(self.clock_corr)
        x0 == IF cfg.arp_enu # None THEN apriori[1] + cfg.arp_enu[1][1]
              ELSE apriori[1]
        sv_x == state.position[1]
        rho == Abs(sv_x - x0)
        g1 == [g EXCEPT ![row_index] = <<(x0 - sv_x) \div rho, 0, 0, 1>>]
        y1 == IF cfg.externalref_delay # None
              THEN [y EXCEPT ![row_index] =
                        @ - cfg.externalref_delay[1] * SPEED_OF_LIGHT]
              ELSE y
        code == IF cfg.method = "SPP" THEN prefered_pseudorange(self)
                ELSE pseudorange_combination(self)
    IN  IF code = None
        THEN [kind |-> "Err",
              error |-> IF cfg.method = "SPP" THEN "MissingPseudoRange"
                        ELSE "PseudoRangeCombination",
              y |-> y1, g |-> g1]
        ELSE
        LET pr == ValueOf(cfg.method, code[1])
            frequency == code[1].frequency
            biases == Biases(cfg, iono_bias, tropo_bias, niel)
            y2 == [y1 EXCEPT ![row_index] =
                      IntDelayLoop(cfg.int_delay, 1, frequency, @)]
            y3 == [y2 EXCEPT ![row_index] =
                      FinalY(cfg, clock_corr, pr, rho,
                             Applied(biases.tropo) + Applied(biases.iono), @)]
        IN  [kind |-> "Ok",
             sv_data |-> [azimuth |-> state.azimuth,
                          elevation |-> state.elevation,
                          tropo_bias |-> IF biases.tropo = None
                                         THEN PVTBias_default
                                         ELSE biases.tropo[1],
                          iono_bias |-> IF biases.iono = None
                                        THEN PVTBias_default
                                        ELSE biases.iono[1]],
             y |-> y3, g |-> g1]

(***************************************************************************)
(* Building blocks of the inputs.                                          *)
(***************************************************************************)
SeqsUpTo(S, n) == UNION {[1..k -> S] : k \in 0..n}

NonEmptySeqsUpTo(S, n) == UNION {[1..k -> S] : k \in 1..n}

Obs(f, v, s) == [frequency |-> f, value |-> v, snr |-> s]

\* Faulty variant of new: the empty code list is not refused
new_unchecked(t, clock_corr, tgd, code, phase, doppler) ==
    [kind |-> "Ok",
     value |-> [t |-> t, t_tx |-> t, state |-> None, tgd |-> tgd,
                clock_corr |-> clock_corr,
                code |-> code, phase |-> phase, doppler |-> doppler]]

\* Candidate::new
new(t, clock_corr, tgd, code, phase, doppler) ==
    IF code = <<>>
    THEN [kind |-> "Err", error |-> "NeedsAtLeastOnePseudoRange"]
    ELSE [kind |-> "Ok",
          value |-> [t |-> t, t_tx |-> t, state |-> None, tgd |-> tgd,
                     clock_corr |-> clock_corr,
                     code |-> code, phase |-> phase, doppler |-> doppler]]

(***************************************************************************)
(* Solver (src/src/solver.rs).                                             *)
(*                                                                         *)
(* The pool handed to run holds n candidates.  The i-th is the candidate   *)
(* of SV i, unless it is a twin.  What it carries, and what the two        *)
(* external services answer for its SV, is kinds[i]:                       *)
(*   good      a pseudo-range of 5 ticks of light time; interpolated with  *)
(*             an elevation of 10; in full sunlight                        *)
(*   low       as good, with an elevation of 5                             *)
(*   noelev    as good, the interpolator giving no elevation               *)
(*   umbra     as good, in the Earth's shadow                              *)
(*   penumbra  as good, with a sunlight rate of 3                          *)
(*   nointerp  as good, the interpolator returning none                    *)
(*   nopr      no code observation left                                    *)
(*   farpr     a pseudo-range of 11 ticks (0.11 s) of light time           *)
(*   twin      a second candidate of the SV of the candidate before it,    *)
(*             with a pseudo-range of 5 ticks                              *)
(***************************************************************************)
BadKinds == {"low", "noelev", "umbra", "penumbra", "nointerp", "nopr", "farpr"}

Kinds == {"good", "twin"} \cup BadKinds

\* the SV of the i-th candidate of the pool
RECURSIVE SvAt(_, _)
SvAt(ks, i) == IF ks[i] = "twin" THEN SvAt(ks, i - 1) ELSE i

\* the candidate of SV sv, as Candidate::new builds it (its code list may
\* have been emptied since)
PoolCandidate(sv, kind) ==
    [sv |-> sv, t |-> 200, t_tx |-> 200, state |-> None, elevation |-> None,
     tgd |-> Some(1), clock_corr |-> 1,
     code |-> IF kind = "nopr" THEN <<>>
              ELSE IF kind = "farpr" THEN <<Obs(f_l1, 44 * SPEED_OF_LIGHT, None)>>
              ELSE <<Obs(f_l1, 20 * SPEED_OF_LIGHT, None)>>,
     phase |-> <<>>, doppler |-> <<>>]

InputPool(ks) == [i \in 1..Len(ks) |-> PoolCandidate(SvAt(ks, i), ks[i])]

\* the interpolator callback: sky_pos in km, here the SV number
interpolator(ks, t_tx, sv, order) ==
    IF ks[sv] = "nointerp" THEN None
    ELSE Some([sky_pos |-> sv,
               elevation |-> IF ks[sv] = "low" THEN Some(5)
                             ELSE IF ks[sv] = "noelev" THEN None
                             ELSE Some(10)])

\* nyx eclipse_state for an orbit at position state (in m)
eclipse_state(ks, state) ==
    LET sv == state \div 1000
    IN  IF ks[sv] = "umbra" THEN [name |-> "Umbra", r |-> 0]
        ELSE IF ks[sv] = "penumbra" THEN [name |-> "Penumbra", r |-> 3]
        ELSE [name |-> "Visibilis", r |-> 0]

\* a configuration, as far as run reads it
Config(sv_clock_bias, min_sv_elev, min_sv_sunlight_rate) ==
    [modeling |-> [sv_clock_bias |-> sv_clock_bias,
                   sv_total_group_delay |-> TRUE],
     interp_order |-> 11,
     min_sv_elev |-> min_sv_elev,
     min_sv_sunlight_rate |-> min_sv_sunlight_rate]

\* the configurations: both masks optional, a sunlight rate that keeps the
\* penumbra of kinds and one that drops it, and the clock bias of the SV
\* modelled or not
Configs ==
    {Config(TRUE, min_elev, min_rate) :
        min_elev \in {None, Some(10)}, min_rate \in {None, Some(5)}}
    \cup {Config(TRUE, None, Some(3)), Config(FALSE, None, None)}

\* Models::with_capacity
with_capacity == <<>>

\* Solver::new
Solver_new(mode, apriori, cfg) ==
    [mode |-> mode, apriori |-> apriori, cfg |-> cfg, models |-> with_capacity]

NoResult == [kind |-> "none", t |-> 0, why |-> ""]

Panic(why) == [kind |-> "panic", t |-> 0, why |-> why]


\* Solver::elect_candidates: every candidate is compliant with Mode::SPP
elect_candidates(t, p, mode, cfg) == SelectSeq(p, LAMBDA c : mode = "SPP")

\* the closure of the filter_map of run, for one candidate: the candidate
\* Some(c) to keep, None to drop it, or "panic" when transmission_time aborts
Interpolate(ks, c, cfg) ==
    LET tt == transmission_time(c, cfg.modeling)
    IN  IF tt.kind = "Panic" THEN "panic"
        ELSE IF tt.kind = "Err" THEN None
        ELSE LET interpolated == interpolator(ks, tt.e_tx, c.sv, cfg.interp_order)
             IN  IF interpolated # None
                 THEN Some([c EXCEPT !.state = Some(interpolated[1].sky_pos * 1000),
                                     !.elevation = interpolated[1].elevation])
                 ELSE None

\* Faulty variant of Collect: the first candidate dropped ends the pool
RECURSIVE CollectUntilNone(_)
CollectUntilNone(options) ==
    IF options = <<>> \/ Head(options) = None THEN <<>>
    ELSE Head(options) \o CollectUntilNone(Tail(options))

\* filter_map(..).collect(): the candidates kept, in the order of the pool
RECURSIVE Collect(_)
Collect(options) ==
    IF options = <<>> THEN <<>>
    ELSE Head(options) \o Collect(Tail(options))

\* Vec::swap_remove at the 0-based index i
swap_remove(v, i) ==
    [j \in 1..(Len(v) - 1) |-> IF j = i + 1 THEN v[Len(v)] ELSE v[j]]

\* lines 173-238: election and interpolation
Run ==
    /\ pc = "idle"
    /\ LET t == 200
           elected == elect_candidates(t, InputPool(kinds), solver.mode, solver.cfg)
           mapped == [i \in 1..Len(elected) |-> Interpolate(kinds, elected[i], solver.cfg)]
       IN  \/ /\ \E i \in 1..Len(mapped) : mapped[i] = "panic"
              /\ pc' = "abort"
              /\ result' = Panic("propagation delay assertion")
              /\ UNCHANGED pool
           \/ /\ \A i \in 1..Len(mapped) : mapped[i] # "panic"
              /\ pc' = "elevation"
              /\ pool' = Collect(mapped)
              /\ UNCHANGED result
    /\ entry' = Some(solver)
    /\ UNCHANGED <<solver, kinds, idx, last, rows>>
    /\ UNCHANGED candVars

\* `0..pool.len() - 1` on an empty pool: the subtraction aborts where
\* overflow is checked; elsewhere it wraps to usize::MAX, which a number
\* beyond every pool length stands for
LoopEnter(stage, next, mask) ==
    /\ pc = stage
    /\ \/ /\ mask = None
          /\ pc' = next
          /\ UNCHANGED <<idx, last, result>>
       \/ /\ mask # None
          /\ Len(pool) > 0
          /\ pc' = stage \o "_loop"
          /\ idx' = 0
          /\ last' = Len(pool) - 1
          /\ UNCHANGED result
       \/ /\ mask # None
          /\ Len(pool) = 0
          /\ pc' = "abort"
          /\ result' = Panic("attempt to subtract with overflow")
          /\ UNCHANGED <<idx, last>>
       \/ /\ mask # None
          /\ Len(pool) = 0
          /\ pc' = stage \o "_loop"
          /\ idx' = 0
          /\ last' = 2147483647
          /\ UNCHANGED result

\* pool[idx] with idx beyond the pool
IndexPanic ==
    /\ idx >= Len(pool)
    /\ pc' = "abort"
    /\ result' = Panic("index out of bounds")
    /\ UNCHANGED <<pool, idx>>

\* line 241-242
ElevationEnter ==
    /\ LoopEnter("elevation", "eclipse", solver.cfg.min_sv_elev)
    /\ UNCHANGED <<solver, kinds, pool, rows, entry>>
    /\ UNCHANGED candVars

\* lines 243-253: one iteration of the elevation filter
ElevationStep ==
    /\ pc = "elevation_loop"
    /\ idx < last
    /\ \/ IndexPanic
       \/ /\ idx < Len(pool)
          /\ LET min_elev == solver.cfg.min_sv_elev[1]
                 elevation == pool[idx + 1].elevation
             IN  pool' = IF elevation # None
                         THEN IF elevation[1] < min_elev
                              THEN swap_remove(pool, idx) ELSE pool
                         ELSE swap_remove(pool, idx)
          /\ idx' = idx + 1
          /\ UNCHANGED <<pc, result>>
    /\ UNCHANGED <<solver, kinds, last, rows, entry>>
    /\ UNCHANGED candVars

\* the elevation loop is over
ElevationExit ==
    /\ pc = "elevation_loop"
    /\ idx >= last
    /\ pc' = "eclipse"
    /\ UNCHANGED <<solver, kinds, pool, idx, last, rows, result, entry>>
    /\ UNCHANGED candVars

\* lines 258-259
EclipseEnter ==
    /\ LoopEnter("eclipse", "count", solver.cfg.min_sv_sunlight_rate)
    /\ UNCHANGED <<solver, kinds, pool, rows, entry>>
    /\ UNCHANGED candVars

\* lines 260-285: one iteration of the eclipse filter
EclipseStep ==
    /\ pc = "eclipse_loop"
    /\ idx < last
    /\ \/ IndexPanic
       \/ /\ idx < Len(pool)
          /\ LET min_rate == solver.cfg.min_sv_sunlight_rate[1]
                 state == eclipse_state(kinds, pool[idx + 1].state[1])
                 eclipsed == IF state.name = "Umbra" THEN TRUE
                             ELSE IF state.name = "Visibilis" THEN FALSE
                             ELSE state.r < min_rate
             IN  pool' = IF eclipsed THEN swap_remove(pool, idx) ELSE pool
          /\ idx' = idx + 1
          /\ UNCHANGED <<pc, result>>
    /\ UNCHANGED <<solver, kinds, last, rows, entry>>
    /\ UNCHANGED candVars

\* the eclipse loop is over
EclipseExit ==
    /\ pc = "eclipse_loop"
    /\ idx >= last
    /\ pc' = "count"
    /\ UNCHANGED <<solver, kinds, pool, idx, last, rows, result, entry>>
    /\ UNCHANGED candVars

\* lines 289-295: make sure we still have enough SV
CountCheck ==
    /\ pc = "count"
    /\ LET nb_candidates == Len(pool)
       IN  \/ /\ nb_candidates < 4
              /\ pc' = "done"
              /\ result' = [kind |-> "LessThan4SV", t |-> 200, why |-> ""]
           \/ /\ ~(nb_candidates < 4)
              /\ pc' = "modelize"
              /\ UNCHANGED result
    /\ UNCHANGED <<solver, kinds, pool, idx, last, rows, entry>>
    /\ UNCHANGED candVars

\* Models::modelize: the storage is reset, then repopulated for the SVs given
modelize(models, t, sv) == sv

\* lines 297-305; c.elevation.unwrap() aborts on a candidate without elevation
Modelize ==
    /\ pc = "modelize"
    /\ \/ /\ \E i \in 1..Len(pool) : pool[i].elevation = None
          /\ pc' = "abort"
          /\ result' = Panic("unwrap on a None elevation")
          /\ UNCHANGED solver
       \/ /\ \A i \in 1..Len(pool) : pool[i].elevation # None
          /\ solver' = [solver EXCEPT !.models =
                         modelize(@, 200,
                                  [i \in 1..Len(pool) |->
                                      <<pool[i].sv, pool[i].elevation[1]>>])]
          /\ pc' = "matrix"
          /\ UNCHANGED result
    /\ UNCHANGED <<kinds, pool, idx, last, rows, entry>>
    /\ UNCHANGED candVars

\* Models::sum_up: the sum of the biases stored for sv; no configuration of
\* the model enables an atmospheric model, so none is stored
sum_up(models, sv) == 0

\* lines 311-340: the body of the row loop, for the candidate c; the
\* positions being on the x axis, rho is a difference.  c.pseudo_range() is
\* the value of the preferred pseudo-range.
MatrixRow(self, c) ==
    LET x0 == self.apriori[1]
        pr == prefered_pseudorange(c)[1].value
        clock_corr == to_seconds(c.clock_corr)
        sv_x == c.state[1]
        rho == Abs(sv_x - x0)
        models == (0 - clock_corr * SPEED_OF_LIGHT) + sum_up(self.models, c.sv)
    IN  [sv |-> c.sv,
         y |-> pr - rho - models,
         g |-> <<(x0 - sv_x) \div rho, 0, 0, 1>>]

\* lines 307-342: one row of g and y per candidate, in pool order
FormMatrix ==
    /\ pc = "matrix"
    /\ rows' = [index \in 1..Len(pool) |-> MatrixRow(solver, pool[index])]
    /\ pc' = "resolve"
    /\ UNCHANGED <<solver, kinds, pool, idx, last, result, entry>>
    /\ UNCHANGED candVars

\* the HashMap<SV, PVTSVData> handed to PVTSolution::new: one insert per
\* candidate that gave a row, under its SV, in pool order
RECURSIVE sv_data(_, _)
sv_data(p, n) ==
    IF n = 0 THEN <<>>
    ELSE LET map == sv_data(p, n - 1)
             data == [elevation |-> p[n].elevation]
         IN  [k \in DOMAIN map \cup {p[n].sv} |->
                 IF k = p[n].sv THEN data ELSE map[k]]

\* Faulty variant of PVTSolution_new: the map is not attached
PVTSolution_new_without_sv(g, sv, invertible, dt) ==
    IF ~invertible THEN [kind |-> "Err", error |-> "MatrixInversionError"]
    ELSE IF dt = "NaN" THEN [kind |-> "Err", error |-> "TimeIsNan"]
    ELSE [kind |-> "Ok", sv |-> <<>>, dt |-> dt]

\* PVTSolution::new: invertible says whether try_inverse finds an inverse of
\* the normal matrix, dt is x[3] / SPEED_OF_LIGHT
PVTSolution_new(g, sv, invertible, dt) ==
    IF ~invertible THEN [kind |-> "Err", error |-> "MatrixInversionError"]
    ELSE IF dt = "NaN" THEN [kind |-> "Err", error |-> "TimeIsNan"]
    ELSE [kind |-> "Ok", sv |-> sv, dt |-> dt]

\* PVTSolution::sv: the keys of the map
PVTSolution_sv(self) == DOMAIN self.sv

\* whether try_inverse can find an inverse of the normal matrix: not with
\* fewer than 4 distinct rows, the rows of one SV being equal; beyond that
\* it depends on the geometry, which the model leaves open
Invertible(g) ==
    IF Cardinality({g[i].sv : i \in 1..Len(g)}) >= 4 THEN BOOLEAN ELSE {FALSE}

\* lines 344-352
Resolve ==
    /\ pc = "resolve"
    /\ \E invertible \in Invertible(rows), dt \in {"finite", "NaN", "infinite"} :
           LET estimate == PVTSolution_new(rows, sv_data(pool, Len(pool)),
                                           invertible, dt)
           IN  result' = IF estimate.kind = "Err"
                         THEN [kind |-> "SolvingError", t |-> 200, why |-> ""]
                         ELSE [kind |-> "Ok", t |-> 200, why |-> "",
                               solution |-> estimate]
    /\ pc' = "done"
    /\ UNCHANGED <<solver, kinds, pool, idx, last, rows, entry>>
    /\ UNCHANGED candVars

Init ==
    /\ cand = new(200, 0, None,
                  <<Obs(f_l1, 20 * SPEED_OF_LIGHT, None)>>, <<>>, <<>>).value
    /\ op = [name |-> "none", arg |-> 0]
    /\ ret = None
    /\ before = cand
    /\ twice = FALSE
    /\ \E n \in 0..MaxPool :
           /\ kinds \in [1..n -> Kinds]
           /\ Cardinality({i \in 1..n : kinds[i] # "good"}) <= MaxBad
           /\ n > 0 => kinds[1] # "twin"
    /\ \E cfg \in Configs : solver = Solver_new("SPP", <<0, 0, 0>>, cfg)
    /\ pc = "idle"
    /\ pool = <<>>
    /\ idx = 0
    /\ last = 0
    /\ rows = <<>>
    /\ result = NoResult
    /\ entry = None

Next ==
    \/ Run
    \/ ElevationEnter
    \/ ElevationStep
    \/ ElevationExit
    \/ EclipseEnter
    \/ EclipseStep
    \/ EclipseExit
    \/ CountCheck
    \/ Modelize
    \/ FormMatrix
    \/ Resolve

Spec == Init /\ [][Next]_vars

(***************************************************************************)
(* The candidates the operations are tried on.  Candidate::new refuses an  *)
(* empty code list, so every initial candidate has a code observation; an  *)
(* empty code list is reached through min_snr_mask.                        *)
(***************************************************************************)
\* observations that differ by SNR, two of them without SNR and two with
\* the same SNR; phase and doppler values differ from every code value
SnrCands ==
    {new(200, 0, None, c, p, d).value :
        c \in NonEmptySeqsUpTo({Obs(f_l1, 1, None), Obs(f_l1, 2, None),
                                Obs(f_l1, 1, Some(1)),
                                Obs(f_l1, 1, Some(2)), Obs(f_l1, 2, Some(2))},
                               MaxCode),
        p \in SeqsUpTo({Obs(f_l1, 8, s) : s \in {None, Some(3)}}, MaxOther),
        d \in {<<>>, <<Obs(f_l1, 9, None)>>, <<Obs(f_l1, 9, Some(4))>>}}

\* code observations that differ by carrier: L1, a frequency of the L1 slot
\* that is not the nominal one, L2, L5, and a carrier of no slot
FreqCands ==
    {new(200, 0, None, c, <<>>, <<>>).value :
        c \in NonEmptySeqsUpTo({Obs(f, v, None) :
                                   f \in {f_l1, 1575000, f_l2, f_l5, 1602000},
                                   v \in {20, 25}},
                               MaxCode)}

\* code and phase observations on L1, L2 and on two carriers of 40 and
\* 50 MHz, whose kHz count fits 16 bits
BandCands ==
    {new(200, 0, None, c, p, <<>>).value :
        c \in NonEmptySeqsUpTo({Obs(f, 20, None) :
                                   f \in {f_l1, f_l2, 40000, 50000}}, MaxBand),
        p \in SeqsUpTo({Obs(f, 8, None) : f \in {f_l1, 40000, 50000}}, MaxBand)}

\* pseudo-ranges of 0, 1/4, 1/2, 5, 10, 10 1/4 and 11 ticks of light time,
\* clock corrections and group delays of a tick
TimeCands ==
    {new(200, cc, tgd, c, <<>>, <<>>).value :
        cc \in {0 - 1, 0, 1},
        tgd \in {None, Some(1)},
        c \in NonEmptySeqsUpTo(
                 {Obs(f_l1, k * SPEED_OF_LIGHT, s) :
                     k \in {0, 1, 2, 20, 40, 41, 44}, s \in {None, Some(1)}},
                 MaxOther)}

\* cfg.modeling, as far as transmission_time reads it
Modelings == [sv_clock_bias : BOOLEAN, sv_total_group_delay : BOOLEAN]

InitCand ==
    /\ cand \in SnrCands \cup FreqCands \cup BandCands \cup TimeCands
    /\ op = [name |-> "none", arg |-> 0]
    /\ ret = None
    /\ before = cand
    /\ twice = FALSE
    /\ solver = Solver_new("SPP", <<0, 0, 0>>, CHOOSE cfg \in Configs : TRUE)
    /\ kinds = <<>>
    /\ pc = "idle"
    /\ pool = <<>>
    /\ idx = 0
    /\ last = 0
    /\ rows = <<>>
    /\ result = NoResult
    /\ entry = None

CallBestSnr ==
    /\ op' = [name |-> "best_snr", arg |-> 0]
    /\ ret' = best_snr(cand)
    /\ before' = cand
    /\ twice' = FALSE
    /\ UNCHANGED cand
    /\ UNCHANGED solverVars

CallPreferedPseudorange ==
    /\ op' = [name |-> "prefered_pseudorange", arg |-> 0]
    /\ ret' = prefered_pseudorange(cand)
    /\ before' = cand
    /\ twice' = FALSE
    /\ UNCHANGED cand
    /\ UNCHANGED solverVars

CallMinSnrMask ==
    \E min_snr \in 1..3 :
        /\ op' = [name |-> "min_snr_mask", arg |-> min_snr]
        /\ cand' = min_snr_mask(cand, min_snr)
        /\ ret' = None
        /\ before' = cand
        /\ twice' = (op.name = "min_snr_mask" /\ op.arg = min_snr)
        /\ UNCHANGED solverVars

CallPseudorangeCombination ==
    /\ op' = [name |-> "pseudorange_combination", arg |-> 0]
    /\ ret' = pseudorange_combination(cand)
    /\ before' = cand
    /\ twice' = FALSE
    /\ UNCHANGED cand
    /\ UNCHANGED solverVars

\* Candidate::new on the lists of cand, for an epoch t
CallNew ==
    \E t \in {200, 201} :
        /\ op' = [name |-> "new", arg |-> t]
        /\ ret' = new(t, cand.clock_corr, cand.tgd,
                      cand.code, cand.phase, cand.doppler)
        /\ before' = cand
        /\ twice' = FALSE
        /\ UNCHANGED cand
        /\ UNCHANGED solverVars

CallDualPseudorange ==
    /\ op' = [name |-> "dual_pseudorange", arg |-> 0]
    /\ ret' = dual_pseudorange(cand)
    /\ before' = cand
    /\ twice' = FALSE
    /\ UNCHANGED cand
    /\ UNCHANGED solverVars

CallDualPhase ==
    /\ op' = [name |-> "dual_phase", arg |-> 0]
    /\ ret' = dual_phase(cand)
    /\ before' = cand
    /\ twice' = FALSE
    /\ UNCHANGED cand
    /\ UNCHANGED solverVars

CallPppCompatible ==
    /\ op' = [name |-> "ppp_compatible", arg |-> 0]
    /\ ret' = ppp_compatible(cand)
    /\ before' = cand
    /\ twice' = FALSE
    /\ UNCHANGED cand
    /\ UNCHANGED solverVars

CallTransmissionTime ==
    \E m \in Modelings :
        /\ op' = [name |-> "transmission_time", arg |-> m]
        /\ ret' = transmission_time(cand, m)
        /\ before' = cand
        /\ twice' = FALSE
        /\ UNCHANGED cand
        /\ UNCHANGED solverVars

NextCand ==
    \/ CallNew
    \/ CallBestSnr
    \/ CallPreferedPseudorange
    \/ CallMinSnrMask
    \/ CallPseudorangeCombination
    \/ CallDualPseudorange
    \/ CallDualPhase
    \/ CallPppCompatible
    \/ CallTransmissionTime

SpecCand == InitCand /\ [][NextCand]_vars

(***************************************************************************)
(* Candidate::resolve, tried on interpolated candidates 7 distance units   *)
(* from the a priori position, for a system of two rows.                   *)
(***************************************************************************)
\* candidates with and without state, with a clock correction of a tick
\* or none, and a code list that is empty, L1 alone, L1 and L2, or L2 (the
\* preferred one) and L1
RowCands ==
    {[min_snr_mask(new(200, cc, None, c, <<>>, <<>>).value, 1)
         EXCEPT !.state = st] :
        cc \in {0, 1},
        c \in {<<Obs(f_l1, 60, None)>>,
               <<Obs(f_l1, 60, Some(1))>>,
               <<Obs(f_l1, 60, Some(1)), Obs(f_l2, 60, Some(1))>>,
               <<Obs(f_l2, 66, Some(2)), Obs(f_l1, 60, Some(1))>>},
        st \in {None, Some([position |-> <<7, 0, 0>>,
                            azimuth |-> Some(1), elevation |-> Some(10)])}}

\* the configurations, as far as resolve reads them
RowConfigs ==
    [method : {"SPP", "PPP"},
     modeling : [sv_clock_bias : BOOLEAN, tropo_delay : BOOLEAN,
                 iono_delay : BOOLEAN],
     arp_enu : {None, Some(<<1, 0, 0>>)},
     externalref_delay : {None, Some(2)},
     int_delay : {<<>>,
                  <<[frequency |-> f_l1, delay |-> 1]>>,
                  <<[frequency |-> f_l2, delay |-> 1],
                    [frequency |-> f_l1, delay |-> 3]>>}]

\* the bias providers: a troposphere that is to be modelled, measured, or
\* unknown; an ionosphere known or not
TropoBiases ==
    {[needs_modeling |-> TRUE, bias |-> None],
     [needs_modeling |-> FALSE, bias |-> Some(2)],
     [needs_modeling |-> FALSE, bias |-> None]}

IonoBiases == {[bias |-> None], [bias |-> Some(1)]}

InitRow ==
    /\ cand \in RowCands
    /\ op = [name |-> "none", arg |-> 0]
    /\ ret = None
    /\ before = cand
    /\ twice = FALSE
    /\ solver = Solver_new("SPP", <<0, 0, 0>>, CHOOSE cfg \in Configs : TRUE)
    /\ kinds = <<>>
    /\ pc = "idle"
    /\ pool = <<>>
    /\ idx = 0
    /\ last = 0
    /\ rows = <<>>
    /\ result = NoResult
    /\ entry = None

\* resolve, called once on the candidate, for a row of a system whose y
\* and g are still zero
CallResolve ==
    \E cfg \in RowConfigs, iono_bias \in IonoBiases, tropo_bias \in TropoBiases,
       row_index \in 1..2 :
        /\ op.name = "none"
        /\ op' = [name |-> "resolve",
                  arg |-> [cfg |-> cfg, iono_bias |-> iono_bias,
                           tropo_bias |-> tropo_bias, row_index |-> row_index]]
        /\ ret' = resolve(cand, cand.t, cfg, <<0, 0, 0>>, iono_bias, tropo_bias,
                          4, row_index, <<0, 0>>,
                          <<<<0, 0, 0, 0>>, <<0, 0, 0, 0>>>>)
        /\ before' = cand
        /\ twice' = FALSE
        /\ UNCHANGED cand
        /\ UNCHANGED solverVars

NextRow ==
    \/ CallResolve

SpecRow == InitRow /\ [][NextRow]_vars

(***************************************************************************)
(* Properties of Solver::run, checked under Spec.                          *)
(***************************************************************************)
\* what the elevation mask is to drop: no elevation, or one below min_elev
BelowMask(c, min_elev) ==
    \/ c.elevation = None
    \/ c.elevation[1] < min_elev

\* what the eclipse mask is to drop: Umbra, or Penumbra(r) with r < min_rate
Eclipsed(c, min_rate) ==
    LET state == eclipse_state(kinds, c.state[1])
    IN  \/ state.name = "Umbra"
        \/ state.name = "Penumbra" /\ state.r < min_rate

\* the candidates of the pool handed to run that election and interpolation
\* keep and that neither mask, where set, is to drop
Remaining ==
    LET cfg == entry[1].cfg
        elected == elect_candidates(200, InputPool(kinds), entry[1].mode, cfg)
        mapped == [i \in 1..Len(elected) |-> Interpolate(kinds, elected[i], cfg)]
        kept == Collect(mapped)
    IN  {i \in 1..Len(kept) :
            /\ cfg.min_sv_elev # None => ~BelowMask(kept[i], cfg.min_sv_elev[1])
            /\ cfg.min_sv_sunlight_rate # None
                  => ~Eclipsed(kept[i], cfg.min_sv_sunlight_rate[1])}

\* run is over, by a return or by an abort past the interpolation
RunOver ==
    \/ pc = "done"
    \/ pc = "abort" /\ result.why # "propagation delay assertion"

\* C1: whenever fewer than 4 candidates remain after election,
\* interpolation and the two masks, run returns LessThan4SV(t) for the t it
\* was called with, and no solution
C1_LessThan4SV ==
    (RunOver /\ Cardinality(Remaining) < 4)
        => (result.kind = "LessThan4SV" /\ result.t = 200)

\* C2: with min_sv_elev set, once the elevation mask step is over every
\* candidate of the pool, at every position, has an elevation and that
\* elevation is not below min_sv_elev
C2_ElevationMask ==
    (pc = "eclipse" /\ solver.cfg.min_sv_elev # None)
        => \A i \in 1..Len(pool) : ~BelowMask(pool[i], solver.cfg.min_sv_elev[1])

\* C3: with min_sv_sunlight_rate set, once the eclipse mask step is over no
\* candidate of the pool is in Umbra or in a Penumbra below the rate, and
\* no step of the eclipse mask takes a candidate that is neither out of
\* the pool
C3_EclipseMask ==
    /\ [](  (pc = "count" /\ solver.cfg.min_sv_sunlight_rate # None)
            => \A i \in 1..Len(pool) :
                   ~Eclipsed(pool[i], solver.cfg.min_sv_sunlight_rate[1])  )
    /\ [][  pc = "eclipse_loop"
            => \A i \in 1..Len(pool) :
                   Eclipsed(pool[i], solver.cfg.min_sv_sunlight_rate[1])
                   \/ \E j \in 1..Len(pool') : pool'[j] = pool[i]  ]_vars

\* C4: a run that returns LessThan4SV or SolvingError leaves the solver as
\* it was at the call: configuration, a priori position and model storage
C4_FailedRunLeavesSolver ==
    (pc = "done" /\ result.kind \in {"LessThan4SV", "SolvingError"})
        => solver = entry[1]

(***************************************************************************)
(* Properties of the Candidate operations, checked under SpecCand.         *)
(***************************************************************************)
Indices(list) == 1..Len(list)

Elems(list) == {list[i] : i \in Indices(list)}

SetMax(S) == CHOOSE x \in S : \A y \in S : y <= x

SetMin(S) == CHOOSE x \in S : \A y \in S : x <= y

\* the SNRs carried by the observations of a list
SnrsOf(list) == {list[i].snr[1] : i \in {j \in Indices(list) : list[j].snr # None}}

\* C5: prefered_pseudorange returns none iff code is empty; otherwise it
\* returns an element of code, never one of phase or doppler: the earliest
\* code observation carrying the maximum SNR of code when some code
\* observation carries an SNR, and the first code observation otherwise.
C5_PreferedPseudorange ==
    op.name = "prefered_pseudorange" =>
        LET code == cand.code
            with == {i \in Indices(code) : code[i].snr # None}
        IN  /\ (ret = None) <=> (code = <<>>)
            /\ ret # None =>
                /\ ret[1] \in Elems(code)
                /\ ret[1] \notin Elems(cand.phase) \cup Elems(cand.doppler)
                /\ IF with # {}
                   THEN LET best == SetMax(SnrsOf(code))
                            first == SetMin({i \in with : code[i].snr[1] = best})
                        IN  ret[1] = code[first]
                   ELSE ret[1] = code[1]

\* a first code observation without SNR, then two different ones that tie on
\* the maximum SNR: the earlier of the two is returned
C5_Witness ==
    /\ op.name = "prefered_pseudorange"
    /\ Len(cand.code) = 3
    /\ cand.code[1].snr = None
    /\ cand.code[2].snr = Some(2)
    /\ cand.code[3].snr = Some(2)
    /\ cand.code[2] # cand.code[3]
    /\ cand.phase # <<>>
    /\ ret = Some(cand.code[2])

\* C6: best_snr returns the maximum SNR over the observations of code, phase
\* and doppler that carry one, and none iff no observation carries one.
C6_BestSnr ==
    op.name = "best_snr" =>
        LET all == SnrsOf(cand.code) \cup SnrsOf(cand.phase) \cup SnrsOf(cand.doppler)
        IN  /\ (ret = None) <=> (all = {})
            /\ all # {} => ret = Some(SetMax(all))

\* the maximum is carried by a phase observation, which is neither the first
\* nor the last of the chain, and the code list carries smaller SNRs
C6_Witness ==
    /\ op.name = "best_snr"
    /\ SnrsOf(cand.code) # {}
    /\ SnrsOf(cand.phase) # {}
    /\ cand.doppler # <<>> /\ SnrsOf(cand.doppler) = {}
    /\ ret = Some(SetMax(SnrsOf(cand.phase)))
    /\ ret[1] \notin SnrsOf(cand.code)

\* C7: min_snr_mask is idempotent: a second min_snr_mask(m) right after a
\* first one leaves the candidate as the first one left it.
C7_MaskIdempotent == twice => cand = before

\* masked twice with the same threshold, something having survived
C7_Witness ==
    /\ twice
    /\ op.arg = 2
    /\ cand.code # <<>>
    /\ cand.phase # <<>>

\* the observations of a list whose SNR is present and >= m, in order
Surviving(list, m) ==
    SelectSeq(list, LAMBDA c : c.snr # None /\ c.snr[1] >= m)

\* C8: after min_snr_mask(m) each list holds exactly its former observations
\* whose SNR is present and >= m, in their former order, and no other field of
\* the candidate has changed.
C8_MaskRetains ==
    op.name = "min_snr_mask" =>
        /\ cand.code = Surviving(before.code, op.arg)
        /\ cand.phase = Surviving(before.phase, op.arg)
        /\ cand.doppler = Surviving(before.doppler, op.arg)
        /\ cand = [before EXCEPT !.code = cand.code, !.phase = cand.phase,
                                 !.doppler = cand.doppler]

\* the mask has removed an observation without SNR and one below the
\* threshold, and kept one that is exactly at the threshold
C8_Witness ==
    /\ op.name = "min_snr_mask"
    /\ op.arg = 2
    /\ \E i \in Indices(before.code) : before.code[i].snr = None
    /\ \E i \in Indices(before.code) : before.code[i].snr = Some(1)
    /\ Len(cand.code) = 1
    /\ cand.code[1].snr = Some(2)
    /\ Len(before.phase) > Len(cand.phase)

\* C9: when transmission_time returns Ok((e_tx, dt)), dt = t - e_tx and
\* 0 < dt <= 0.1 s; the only recoverable error is the missing pseudo-range,
\* so a delay out of that range is returned neither as Ok nor as an error.
C9_TransmissionDelay ==
    op.name = "transmission_time" =>
        /\ ret.kind \in {"Ok", "Err", "Panic"}
        /\ ret.kind = "Ok" =>
            /\ ret.dt = cand.t - ret.e_tx
            /\ ret.dt > 0
            /\ to_seconds(ret.dt) <= MaxPropagation
        /\ ret.kind = "Err" =>
            /\ ret.error = "MissingPseudoRange"
            /\ cand.code = <<>>

\* a delay of exactly 0.1 s is returned, a (negative) clock correction and
\* the group delay having been applied
C9_Witness ==
    /\ op.name = "transmission_time"
    /\ op.arg.sv_clock_bias /\ op.arg.sv_total_group_delay
    /\ cand.clock_corr = 0 - 1 /\ cand.tgd = Some(1)
    /\ ret.kind = "Ok"
    /\ to_seconds(ret.dt) = MaxPropagation

\* the code observations of a slot
InSlot(code, mhz) == {i \in Indices(code) : code[i].frequency \div 1000 = mhz}

\* what C10 says of the returned observation, but for its frequency: L1 is
\* paired with L2 when L2 is present and with L5 otherwise, and the value is
\* (f1^2 c1 - fx^2 cx) / (f1^2 - fx^2), with f1 : f2 : f5 = 154 : 120 : 115
\* (1575.42, 1227.60 and 1176.45 MHz), c1 and cx being observations of the
\* two slots
C10_Value(code, r) ==
    LET fx == IF InSlot(code, 1227) # {} THEN 120 ELSE 115
        sx == IF InSlot(code, 1227) # {} THEN 1227 ELSE 1176
    IN  /\ r.snr = None
        /\ r.den = 154 * 154 - fx * fx
        /\ \E i \in InSlot(code, 1575), j \in InSlot(code, sx) :
               r.num = 154 * 154 * code[i].value - fx * fx * code[j].value

C10_NoneIff(code, r) ==
    (r = None) <=>
        (InSlot(code, 1575) = {} \/ (InSlot(code, 1227) = {} /\ InSlot(code, 1176) = {}))

\* C10 as claimed: ... and the returned frequency is f1 = 1575.42 MHz.
C10_Original ==
    op.name = "pseudorange_combination" =>
        /\ C10_NoneIff(cand.code, ret)
        /\ ret # None =>
            /\ C10_Value(cand.code, ret[1])
            /\ ret[1].frequency = 1575420

\* C10 as amended: ... and the returned frequency is the frequency carried by
\* the L1-slot code observation that was combined (the last one of the list).
C10_Combination ==
    op.name = "pseudorange_combination" =>
        /\ C10_NoneIff(cand.code, ret)
        /\ ret # None =>
            /\ C10_Value(cand.code, ret[1])
            /\ ret[1].frequency = cand.code[SetMax(InSlot(cand.code, 1575))].frequency

\* L1, L2 and L5 are all present, L5 before L2, and the L1 observation
\* carries a frequency of the 1575 MHz slot other than 1575.42 MHz
C10_Witness ==
    /\ op.name = "pseudorange_combination"
    /\ Len(cand.code) = 3
    /\ cand.code[1].frequency = f_l5
    /\ cand.code[2].frequency = 1575000
    /\ cand.code[3].frequency = f_l2
    /\ cand.code[1].value # cand.code[3].value
    /\ ret # None
    /\ ret[1].frequency = 1575000

\* the distinct values of floor(frequency / 1000) of a list, for
\* frequencies in Hz: the frequencies of the model are in kHz
BandsOf(list) == {list[i].frequency : i \in Indices(list)}

\* C11: dual_pseudorange, and so ppp_compatible, is true iff the code
\* observations have at least two distinct values of floor(frequency /
\* 1000), whatever the carriers; dual_phase likewise over the phase
\* observations
C11_DualBands ==
    /\ op.name \in {"dual_pseudorange", "ppp_compatible"}
           => ret = (Cardinality(BandsOf(cand.code)) > 1)
    /\ op.name = "dual_phase"
           => ret = (Cardinality(BandsOf(cand.phase)) > 1)

\* C12: Candidate::new fails with NeedsAtLeastOnePseudoRange iff the code
\* list given is empty; otherwise it returns a candidate with t_tx = t, no
\* state, and the code, phase and doppler lists given, in the same order
C12_New ==
    op.name = "new" =>
        /\ ret.kind = "Err" <=> cand.code = <<>>
        /\ ret.kind = "Err" => ret.error = "NeedsAtLeastOnePseudoRange"
        /\ ret.kind = "Ok" =>
              /\ ret.value.t = op.arg
              /\ ret.value.t_tx = op.arg
              /\ ret.value.state = None
              /\ ret.value.code = cand.code
              /\ ret.value.phase = cand.phase
              /\ ret.value.doppler = cand.doppler

\* C12: new was called with an empty code list and a phase observation,
\* and failed
C12_Witness ==
    /\ op.name = "new"
    /\ cand.code = <<>>
    /\ cand.phase # <<>>
    /\ ret.kind = "Err"

\* C13: no solution comes out of PVTSolution::new with a clock bias that
\* is not finite: a NaN or infinite x3 / c_light, and a normal matrix
\* without inverse, make it fail, so a run that returns a solution
\* returns one with a finite dt
C13_FiniteClockBias ==
    (pc = "done" /\ result.kind = "Ok") => result.solution.dt = "finite"

\* the candidate c has no pseudo-range, or the interpolator returns none
\* for it
Swallowed(c) ==
    LET tt == transmission_time(c, solver.cfg.modeling)
    IN  \/ tt.kind = "Err"
        \/ /\ tt.kind = "Ok"
           /\ interpolator(kinds, tt.e_tx, c.sv, solver.cfg.interp_order) = None

\* a candidate of the pool of run, as it was handed to run
AsGiven(c) == [c EXCEPT !.state = None, !.elevation = None]

\* C14: the candidates without pseudo-range and those the interpolator
\* returns none for are dropped, every other candidate is interpolated
\* and kept wherever it stands in the pool, and a run does not fail at the
\* interpolation step unless a transmission time itself aborts
C14_FailuresSwallowed ==
    /\ pc = "elevation" =>
          /\ [i \in 1..Len(pool) |-> AsGiven(pool[i])]
                 = SelectSeq(InputPool(kinds), LAMBDA c : ~Swallowed(c))
          /\ \A i \in 1..Len(pool) : pool[i].state # None
    /\ (pc = "abort" /\ result.why = "propagation delay assertion") =>
          \E i \in 1..Len(kinds) :
              transmission_time(InputPool(kinds)[i],
                                solver.cfg.modeling).kind = "Panic"

\* C14: interpolation is over, and a candidate that was dropped stood
\* between two that are kept
C14_Witness ==
    /\ pc = "elevation"
    /\ \E i, j, k \in 1..Len(kinds) :
           /\ i < j /\ j < k
           /\ Swallowed(InputPool(kinds)[j])
           /\ \E a, b \in 1..Len(pool) :
                  /\ a < b
                  /\ AsGiven(pool[a]) = InputPool(kinds)[i]
                  /\ AsGiven(pool[b]) = InputPool(kinds)[k]

\* the SVs of the candidates that gave a row of G
RowSvs == {rows[i].sv : i \in 1..Len(rows)}

C18_ClockBiasGated ==
    (pc = "resolve" /\ ~solver.cfg.modeling.sv_clock_bias) =>
        \A i \in 1..Len(rows) :
            rows[i].y = MatrixRow(solver, [pool[i] EXCEPT !.clock_corr = 0]).y

\* C19: once the interpolation step of run is over, every candidate of
\* the pool has a state and has for t_tx the epoch that transmission_time
\* gave for it, so that 0 < t - t_tx <= 100 ms
C19_TransmitEpochKept ==
    pc = "elevation" =>
        \A i \in 1..Len(pool) :
            /\ pool[i].state # None
            /\ pool[i].t_tx
                   = transmission_time(AsGiven(pool[i]), solver.cfg.modeling).e_tx
            /\ pool[i].t - pool[i].t_tx > 0
            /\ to_seconds(pool[i].t - pool[i].t_tx) <= MaxPropagation

\* C20: the rows of G and y follow the order of the pool: row i is built
\* from the i-th candidate left in the pool, and of two candidates that
\* gave a row the one that stood earlier in the pool handed to run has the
\* smaller row index (the SV of a candidate grows with its place in that
\* pool)
C20_RowsInPoolOrder ==
    pc = "resolve" =>
        /\ Len(rows) = Len(pool)
        /\ \A i \in 1..Len(rows) : rows[i].sv = pool[i].sv
        /\ \A i, j \in 1..Len(rows) : i < j => rows[i].sv <= rows[j].sv

\* C21: whatever the pool, the empty one included, and whatever a mask
\* removes, each iteration of the elevation and eclipse loops of run works
\* at an index below the current length of the pool, and run never aborts
\* on the computation of a length or of an index
C21_IndicesWithinPool ==
    /\ (pc \in {"elevation_loop", "eclipse_loop"} /\ idx < last)
           => idx < Len(pool)
    /\ pc = "abort"
           => result.why \notin {"attempt to subtract with overflow",
                                 "index out of bounds"}

(***************************************************************************)
(* Properties of Candidate::resolve, checked under SpecRow.                *)
(***************************************************************************)
\* the pseudo-range, the distance and the bias accumulator of the row that
\* a successful resolve has built
RowPr == ValueOf(op.arg.cfg.method,
                 (IF op.arg.cfg.method = "SPP" THEN prefered_pseudorange(cand)
                  ELSE pseudorange_combination(cand))[1])

RowRho ==
    Abs(cand.state[1].position[1]
        - (IF op.arg.cfg.arp_enu = None THEN 0 ELSE op.arg.cfg.arp_enu[1][1]))

RowFrequency ==
    (IF op.arg.cfg.method = "SPP" THEN prefered_pseudorange(cand)
     ELSE pseudorange_combination(cand))[1].frequency

\* the bias that the data of the SV reports, 0 when it reports none
Reported(bias) ==
    IF PVTBias_value(bias) = None THEN 0 ELSE PVTBias_value(bias)[1]

RowModels ==
    (IF op.arg.cfg.modeling.sv_clock_bias
     THEN 0 - to_seconds(cand.clock_corr) * SPEED_OF_LIGHT ELSE 0)
    + Reported(ret.sv_data.tropo_bias) + Reported(ret.sv_data.iono_bias)

\* the hardware delays of the configuration, as a distance: minus the
\* external reference delay, plus the internal delays of the frequency
RowDelays ==
    (IF op.arg.cfg.externalref_delay = None THEN 0
     ELSE 0 - op.arg.cfg.externalref_delay[1] * SPEED_OF_LIGHT)
    + IntDelayLoop(op.arg.cfg.int_delay, 1, RowFrequency, 0)

\* C16: after a successful resolve for row i, y[i] is pr - rho - models
\* with the hardware delays added: minus externalref_delay * c_light when
\* set, plus delay * c_light for every int_delay entry of the frequency of
\* the chosen code observation
C16_DelaysFolded ==
    (op.name = "resolve" /\ ret.kind = "Ok") =>
        ret.y[op.arg.row_index] = RowPr - RowRho - RowModels + RowDelays

====
